---- MODULE Spec2Model ----
(***************************************************************************)
(* A model of three pieces of near-cli-rs:                                 *)
(*   - commands/account/import_account: the login flow and save_access_key *)
(*   - construct_transaction_command/.../add_access_key_type: the          *)
(*     AddAccessKeyAction builder and the permission menu                  *)
(*   - commands/view_command/.../block_id_height: BlockIdHeight, its       *)
(*     conversions and its two queries                                     *)
(* The login flow is the specification Spec; the builder is SpecBuilder    *)
(* (SpecBuilderFair with fairness); BlockIdHeight is SpecBlock.            *)
(***************************************************************************)
EXTENDS Integers, Sequences, FiniteSets, TLC

VARIABLES
    \* ---- login (import_account/mod.rs) ----
    pc,                   \* position of login() / save_access_key()
    run,                  \* which invocation of the command this is
    macos,                \* cfg(target_os = "macos") of the build
    key_pair_properties,  \* result of generate_keypair()
    url,                  \* the authorization url
    urlPrinted,           \* println! of the url has happened
    openOutcome,          \* outcome of open::that(url)
    public_key,           \* PublicKey::from_str(public_key_str)
    account_id_from_cli,  \* the loop's local
    account_id,           \* the value the loop breaks with
    entered,              \* account ids returned by input_account_id, in order
    verifyCalls,          \* calls of verify_account_access_key, in order
    selects,              \* answers to "Would you like to re-enter the account_id?"
    promptErrors,         \* prompts that ended with an i/o error, in order
    keychainPrompts,      \* times the keychain Select was shown
    selection,            \* answer of the keychain Select
    saveCalls,            \* calls of save_access_key
    writeLog,             \* backend writes attempted, in order
    messagePrinted,       \* println!(storage_message) has happened
    result,               \* what login() returned
    abortAt,              \* the call whose error was returned
    fileStore,            \* legacy keychain: account -> credential
    macosStore,           \* macOS keychain: account -> credential
    stepCalls,            \* calls of generate_keypair, url builds, open::that in this run
    \* ---- builder (add_access_key_type/mod.rs) ----
    b,
    \* ---- block id height (block_id_height/mod.rs) ----
    h

loginVars == <<pc, run, macos, key_pair_properties, url, urlPrinted, openOutcome,
               public_key, account_id_from_cli, account_id, entered, verifyCalls,
               selects, promptErrors, keychainPrompts, selection, saveCalls,
               writeLog, messagePrinted, result, abortAt, fileStore, macosStore,
               stepCalls>>

vars == <<loginVars, b, h>>

(***************************************************************************)
(* Bounds and small input sets                                             *)
(***************************************************************************)
\* most account ids the user is asked for in one login
MaxEntries == 3
\* most invocations of the login command
MaxRuns == 2

KeyIds == {1, 2}
Accounts == {"alice.near", "bob.near"}
None == "None"
IoError == "IoError"

Last(s) == s[Len(s)]

(***************************************************************************)
(* Values                                                                  *)
(***************************************************************************)
\* the canonical string of a public key, "ed25519:<data>"
PublicKeyToStr(k) == <<"ed25519", k.data>>

\* near_crypto::PublicKey::from_str
PublicKeyFromStr(s) ==
    IF /\ Len(s) = 2
       /\ s[1] = "ed25519"
       /\ s[2] \in KeyIds
    THEN [ok |-> TRUE, key |-> [key_type |-> "ED25519", data |-> s[2]]]
    ELSE [ok |-> FALSE, key |-> None]

\* crate::common::generate_keypair: KeyPairProperties of the k-th key pair
KeyPairProperties(k) ==
    [public_key_str |-> PublicKeyToStr([key_type |-> "ED25519", data |-> k]),
     secret_keypair_str |-> <<"ed25519-secret", k>>]

NoResult == [kind |-> "none"]
Ok == [kind |-> "Ok"]
Err(m, c) == [kind |-> "Err", msg |-> m, cause |-> c]

WalletTitle == "NEAR CLI"

VerifyOutcomes == {"Ok", "NotFound", "Transport"}
StoreCauses == {"PermissionDenied", "DiskFull"}

macos_keychain == "Store the access key in my macOS keychain"
legacy_keychain == "Store the access key in my legacy keychain (compatible with the old near CLI)"

\* no record under this account
NoRecord == [absent |-> TRUE]
EmptyStore == [a \in Accounts |-> NoRecord]

(***************************************************************************)
(* Init                                                                    *)
(***************************************************************************)
NoStepCalls == [generate_keypair |-> 0, url |-> 0, open |-> 0]

RunStart ==
    /\ pc = "Start"
    /\ key_pair_properties = None
    /\ url = None
    /\ urlPrinted = FALSE
    /\ openOutcome = None
    /\ public_key = None
    /\ account_id_from_cli = None
    /\ account_id = None
    /\ entered = <<>>
    /\ verifyCalls = <<>>
    /\ selects = <<>>
    /\ promptErrors = <<>>
    /\ keychainPrompts = 0
    /\ selection = None
    /\ saveCalls = 0
    /\ writeLog = <<>>
    /\ messagePrinted = FALSE
    /\ result = NoResult
    /\ abortAt = None
    /\ stepCalls = NoStepCalls

InitLogin ==
    /\ RunStart
    /\ run = 1
    /\ macos \in BOOLEAN
    /\ fileStore = EmptyStore
    /\ macosStore = EmptyStore

BuilderIdle == [pc |-> "Idle"]
BlockIdle == [pc |-> "Idle"]

Init ==
    /\ InitLogin
    /\ b = BuilderIdle
    /\ h = BlockIdle

(***************************************************************************)
(* login                                                                   *)
(***************************************************************************)
\* an early return through `?`
Abort(at, err) ==
    /\ pc' = "Aborted"
    /\ abortAt' = at
    /\ result' = err

\* lines 23-24: generate_keypair().await?
GenerateKeypair ==
    /\ pc = "Start"
    /\ stepCalls' = [stepCalls EXCEPT !.generate_keypair = @ + 1]
    /\ \/ \E k \in KeyIds :
            /\ key_pair_properties' = KeyPairProperties(k)
            /\ pc' = "KeyGenerated"
            /\ UNCHANGED <<abortAt, result>>
       \/ /\ Abort("generate_keypair", Err("generate_keypair", "Entropy"))
          /\ UNCHANGED key_pair_properties
    /\ UNCHANGED <<run, macos, url, urlPrinted, openOutcome, public_key,
                   account_id_from_cli, account_id, entered, verifyCalls, selects,
                   promptErrors, keychainPrompts, selection, saveCalls, writeLog,
                   messagePrinted, fileStore, macosStore, b, h>>

\* lines 25-34: wallet_url.join("login/")?, the two query pairs, println!
BuildUrl ==
    /\ pc = "KeyGenerated"
    /\ stepCalls' = [stepCalls EXCEPT !.url = @ + 1]
    /\ \/ /\ url' = [path |-> "login/",
                      title |-> WalletTitle,
                      public_key |-> key_pair_properties.public_key_str]
          /\ urlPrinted' = TRUE
          /\ pc' = "UrlPrinted"
          /\ UNCHANGED <<abortAt, result>>
       \/ /\ Abort("join", Err("join", "RelativeUrlWithCannotBeABaseBase"))
          /\ UNCHANGED <<url, urlPrinted>>
    /\ UNCHANGED <<run, macos, key_pair_properties, openOutcome, public_key,
                   account_id_from_cli, account_id, entered, verifyCalls, selects,
                   promptErrors, keychainPrompts, selection, saveCalls, writeLog,
                   messagePrinted, fileStore, macosStore, b, h>>

\* line 36 with `?` in place of `.ok()`
OpenFailureIsFatalMut == TRUE

\* line 36: open::that(url.as_ref()).ok() discards the Result
OpenFailureIsFatal == FALSE

\* line 36
OpenUrl ==
    /\ pc = "UrlPrinted"
    /\ stepCalls' = [stepCalls EXCEPT !.open = @ + 1]
    /\ \E o \in {"opened", "failed"} :
          /\ openOutcome' = o
          /\ IF o = "failed" /\ OpenFailureIsFatal
             THEN Abort("open", Err("open", "NoBrowser"))
             ELSE /\ pc' = "UrlPresented"
                  /\ UNCHANGED <<abortAt, result>>
    /\ UNCHANGED <<run, macos, key_pair_properties, url, urlPrinted, public_key,
                   account_id_from_cli, account_id, entered, verifyCalls, selects,
                   promptErrors, keychainPrompts, selection, saveCalls, writeLog,
                   messagePrinted, fileStore, macosStore, b, h>>

\* lines 38-39: PublicKey::from_str(&key_pair_properties.public_key_str)?
ParsePublicKey ==
    /\ pc = "UrlPresented"
    /\ LET parsed == PublicKeyFromStr(key_pair_properties.public_key_str) IN
          IF parsed.ok
          THEN /\ public_key' = parsed.key
               /\ pc' = "AwaitingAccountId"
               /\ UNCHANGED <<abortAt, result>>
          ELSE /\ Abort("from_str", Err("from_str", "ParseKeyError"))
               /\ UNCHANGED public_key
    /\ UNCHANGED <<run, macos, key_pair_properties, url, urlPrinted, openOutcome,
                   account_id_from_cli, account_id, entered, verifyCalls, selects,
                   promptErrors, keychainPrompts, selection, saveCalls, writeLog,
                   messagePrinted, fileStore, macosStore, b, h, stepCalls>>

\* a prompt error answered with a made-up account id instead of `?`
OnAccountPromptErrorMut ==
    /\ account_id_from_cli' = "alice.near"
    /\ entered' = Append(entered, "alice.near")
    /\ pc' = "Verifying"
    /\ UNCHANGED <<abortAt, result>>

\* line 42: the `?` after input_account_id()
OnAccountPromptError ==
    /\ Abort("input_account_id", Err("input_account_id", IoError))
    /\ UNCHANGED <<account_id_from_cli, entered>>

\* lines 42-43 and 82-84: input_account_id()?; println!()
InputAccountId ==
    /\ pc = "AwaitingAccountId"
    /\ \/ \E a \in Accounts :
            /\ account_id_from_cli' = a
            /\ entered' = Append(entered, a)
            /\ pc' = "Verifying"
            /\ UNCHANGED <<abortAt, result, promptErrors>>
       \/ /\ promptErrors' = Append(promptErrors, "input_account_id")
          /\ OnAccountPromptError
    /\ UNCHANGED <<run, macos, key_pair_properties, url, urlPrinted, openOutcome,
                   public_key, account_id, verifyCalls, selects,
                   keychainPrompts, selection, saveCalls, writeLog,
                   messagePrinted, fileStore, macosStore, b, h, stepCalls>>

\* a transport error retried without asking
AfterVerifyErrorMut(r) == IF r = "Transport" /\ Len(verifyCalls) < MaxEntries
                          THEN "Verifying" ELSE "NotVerifiedPrompt"

\* lines 50-52: .is_err() takes every error to the prompt
AfterVerifyError(r) == "NotVerifiedPrompt"

\* a verified account that is still asked about
AfterVerifyOkMut == "NotVerifiedPrompt"

\* lines 68-70: the else branch breaks out of the loop
AfterVerifyOk == "SaveAccessKey"

\* the first entry instead of this iteration's
BreakOnSaveAnywayMut == entered[1]

\* line 66: break account_id_from_cli
BreakOnSaveAnyway == account_id_from_cli

\* line 69: break account_id_from_cli
BreakOnVerified == account_id_from_cli

\* lines 44-52 and 68-70: verify_account_access_key(...).await.is_err()
Verify ==
    /\ pc = "Verifying"
    /\ \E r \in VerifyOutcomes :
          /\ verifyCalls' = Append(verifyCalls,
                                   [account_id |-> account_id_from_cli,
                                    public_key |-> public_key,
                                    outcome |-> r])
          /\ IF r = "Ok"
             THEN /\ pc' = AfterVerifyOk
                  /\ account_id' = BreakOnVerified
             ELSE /\ pc' = AfterVerifyError(r)
                  /\ UNCHANGED account_id
    /\ UNCHANGED <<run, macos, key_pair_properties, url, urlPrinted, openOutcome,
                   public_key, account_id_from_cli, entered, selects,
                   promptErrors, keychainPrompts, selection, saveCalls, writeLog,
                   messagePrinted, result, abortAt, fileStore, macosStore, b, h, stepCalls>>

\* the whole of login started over
AfterReenterMut == "Start"

\* lines 41-42 and 65-67: ConfirmOptions::Yes falls to the end of the loop body,
\* which starts again at input_account_id
AfterReenter == "AwaitingAccountId"

\* lines 53-67: the two-choice Select, `?`, and the `if let ConfirmOptions::No`
ConfirmReenter ==
    /\ pc = "NotVerifiedPrompt"
    /\ \/ /\ Len(entered) < MaxEntries
          /\ selects' = Append(selects, "Yes")
          /\ pc' = AfterReenter
          /\ UNCHANGED <<account_id, abortAt, result, promptErrors>>
       \/ /\ selects' = Append(selects, "No")
          /\ account_id' = BreakOnSaveAnyway
          /\ pc' = "SaveAccessKey"
          /\ UNCHANGED <<abortAt, result, promptErrors>>
       \/ /\ promptErrors' = Append(promptErrors, "select_confirm")
          /\ Abort("select_confirm", Err("select_confirm", IoError))
          /\ UNCHANGED <<selects, account_id>>
    /\ UNCHANGED <<run, macos, key_pair_properties, url, urlPrinted, openOutcome,
                   public_key, account_id_from_cli, entered, verifyCalls,
                   keychainPrompts, selection, saveCalls, writeLog,
                   messagePrinted, fileStore, macosStore, b, h, stepCalls>>

(***************************************************************************)
(* save_access_key                                                         *)
(***************************************************************************)
\* lines 72-77 and 86-93: the call; the macos block exists only in a macos build
CallSaveAccessKey ==
    /\ pc = "SaveAccessKey"
    /\ saveCalls' = saveCalls + 1
    /\ pc' = IF macos THEN "SelectKeychain" ELSE "WriteLegacy"
    /\ UNCHANGED <<run, macos, key_pair_properties, url, urlPrinted, openOutcome,
                   public_key, account_id_from_cli, account_id, entered, verifyCalls,
                   selects, promptErrors, keychainPrompts, selection, writeLog,
                   messagePrinted, result, abortAt, fileStore, macosStore, b, h, stepCalls>>

\* lines 94-102: the keychain Select, `?`, and `if selection == macos_keychain`
SelectKeychain ==
    /\ pc = "SelectKeychain"
    /\ keychainPrompts' = keychainPrompts + 1
    /\ \/ \E s \in {macos_keychain, legacy_keychain} :
            /\ selection' = s
            /\ pc' = IF s = macos_keychain THEN "WriteMacos" ELSE "WriteLegacy"
            /\ UNCHANGED <<abortAt, result, promptErrors>>
       \/ /\ promptErrors' = Append(promptErrors, "select_keychain")
          /\ Abort("select_keychain", Err("select_keychain", IoError))
          /\ UNCHANGED selection
    /\ UNCHANGED <<run, macos, key_pair_properties, url, urlPrinted, openOutcome,
                   public_key, account_id_from_cli, account_id, entered, verifyCalls,
                   selects, saveCalls, writeLog,
                   messagePrinted, fileStore, macosStore, b, h, stepCalls>>

\* a record that is already there is left as it is
StorePutMut(store, a, kp) ==
    IF store[a] # NoRecord THEN store
    ELSE [store EXCEPT ![a] = [account_id |-> a,
                               public_key |-> kp.public_key_str,
                               private_key |-> kp.secret_keypair_str]]

\* crate::common::save_access_key_to_keychain / _to_macos_keychain on success:
\* one record per account, an existing record is replaced
StorePut(store, a, kp) ==
    [store EXCEPT ![a] = [account_id |-> a,
                          public_key |-> kp.public_key_str,
                          private_key |-> kp.secret_keypair_str]]

\* the backend's error discarded
StoreErrorMut(msg, cause) == Ok

\* lines 108-113 and 124-126: map_err(Report::msg(format!("...: {}", err)))?
StoreError(msg, cause) == Err(msg, cause)

\* the keychain branch without its `return Ok(())`
AfterMacosWriteMut == "WriteLegacy"

\* lines 114-115: println!; return Ok(())
AfterMacosWrite == "Persisted"

\* a failed write tried again
OnWriteFailureMut(at, err) ==
    /\ pc' = pc
    /\ UNCHANGED <<abortAt, result>>

\* lines 113, 126 and 77: `?` returns the error from save_access_key and login
OnWriteFailure(at, err) == Abort(at, err)

\* lines 102-116 and 77-79
SaveToMacosKeychain ==
    /\ pc = "WriteMacos"
    /\ \E o \in {"ok"} \cup StoreCauses :
          /\ writeLog' = Append(writeLog, [backend |-> "macos",
                                           account_id |-> account_id,
                                           key |-> key_pair_properties,
                                           previous |-> macosStore[account_id],
                                           outcome |-> o])
          /\ IF o = "ok"
             THEN /\ macosStore' = StorePut(macosStore, account_id, key_pair_properties)
                  /\ messagePrinted' = TRUE
                  /\ pc' = AfterMacosWrite
                  /\ result' = IF AfterMacosWrite = "Persisted" THEN Ok ELSE result
                  /\ UNCHANGED abortAt
             ELSE /\ OnWriteFailure("macos_keychain",
                          StoreError("Failed to save the access key to the keychain", o))
                  /\ UNCHANGED <<macosStore, messagePrinted>>
    /\ UNCHANGED <<run, macos, key_pair_properties, url, urlPrinted, openOutcome,
                   public_key, account_id_from_cli, account_id, entered, verifyCalls,
                   selects, promptErrors, keychainPrompts, selection, saveCalls,
                   fileStore, b, h, stepCalls>>

\* lines 118-128 and 77-79
SaveToLegacyKeychain ==
    /\ pc = "WriteLegacy"
    /\ \E o \in {"ok"} \cup StoreCauses :
          /\ writeLog' = Append(writeLog, [backend |-> "legacy",
                                           account_id |-> account_id,
                                           key |-> key_pair_properties,
                                           previous |-> fileStore[account_id],
                                           outcome |-> o])
          /\ IF o = "ok"
             THEN /\ fileStore' = StorePut(fileStore, account_id, key_pair_properties)
                  /\ messagePrinted' = TRUE
                  /\ pc' = "Persisted"
                  /\ result' = Ok
                  /\ UNCHANGED abortAt
             ELSE /\ OnWriteFailure("legacy_keychain",
                          StoreError("Failed to save a file with access key", o))
                  /\ UNCHANGED <<fileStore, messagePrinted>>
    /\ UNCHANGED <<run, macos, key_pair_properties, url, urlPrinted, openOutcome,
                   public_key, account_id_from_cli, account_id, entered, verifyCalls,
                   selects, promptErrors, keychainPrompts, selection, saveCalls,
                   macosStore, b, h, stepCalls>>

\* lines 12-17: the command is run again; the stores are what the last run left
Restart ==
    /\ pc \in {"Persisted", "Aborted"}
    /\ run < MaxRuns
    /\ run' = run + 1
    /\ pc' = "Start"
    /\ key_pair_properties' = None
    /\ url' = None
    /\ urlPrinted' = FALSE
    /\ openOutcome' = None
    /\ public_key' = None
    /\ account_id_from_cli' = None
    /\ account_id' = None
    /\ entered' = <<>>
    /\ verifyCalls' = <<>>
    /\ selects' = <<>>
    /\ promptErrors' = <<>>
    /\ keychainPrompts' = 0
    /\ selection' = None
    /\ saveCalls' = 0
    /\ writeLog' = <<>>
    /\ messagePrinted' = FALSE
    /\ result' = NoResult
    /\ abortAt' = None
    /\ stepCalls' = NoStepCalls
    /\ UNCHANGED <<macos, fileStore, macosStore, b, h>>

Next ==
    \/ GenerateKeypair
    \/ BuildUrl
    \/ OpenUrl
    \/ ParsePublicKey
    \/ InputAccountId
    \/ Verify
    \/ ConfirmReenter
    \/ CallSaveAccessKey
    \/ SelectKeychain
    \/ SaveToMacosKeychain
    \/ SaveToLegacyKeychain
    \/ Restart

Spec == Init /\ [][Next]_vars

(***************************************************************************)
(* AddAccessKeyAction builder (add_access_key_type/mod.rs)                 *)
(***************************************************************************)
\* most texts a prompt rejects before it gets one that parses
MaxRejected == 2

\* Option<T>
NoneV == [some |-> FALSE]
Some(x) == [some |-> TRUE, v |-> x]

PublicKeys == {[key_type |-> "ED25519", data |-> k] : k \in KeyIds}
\* what the user may type at the public-key prompt
KeyTexts == {<<"ed25519", 1>>, <<"ed25519", 2>>, <<"ed25519", 99>>, <<"garbage">>}

Digits == <<"0", "1", "2", "3", "4", "5", "6", "7", "8", "9">>
DigitValue(c) == (CHOOSE i \in DOMAIN Digits : Digits[i] = c) - 1
IsDigit(c) == \E i \in DOMAIN Digits : Digits[i] = c

RECURSIVE DecimalValue(_)
DecimalValue(t) ==
    IF t = <<>> THEN 0
    ELSE 10 * DecimalValue(SubSeq(t, 1, Len(t) - 1)) + DigitValue(t[Len(t)])

\* <u64 as FromStr>::from_str on the typed text
ParseU64(t) ==
    IF t # <<>> /\ \A i \in DOMAIN t : IsDigit(t[i])
    THEN [ok |-> TRUE, value |-> DecimalValue(t)]
    ELSE [ok |-> FALSE, value |-> 0]

\* what the user may type at the nonce prompt
NonceTexts == {<<"5">>, <<"0">>, <<"4", "2">>, <<"-", "1">>, <<"x">>, <<>>}
\* nonces given on the command line
CliNonces == {0, 5, 42}

ReceiverIds == {"contract.near"}
MethodNames == {<<>>, <<"get", "set">>}
Allowances == {NoneV, Some(10)}

\* lines 27-31: CliAccessKeyPermission, and Default::default() of its payloads
CliFunctionCall(allowance, receiver_id, method_names) ==
    [variant |-> "FunctionCallAction", allowance |-> allowance,
     receiver_id |-> receiver_id, method_names |-> method_names]
CliFullAccess == [variant |-> "FullAccessAction"]
CliFunctionCallDefault == CliFunctionCall(NoneV, NoneV, NoneV)

CliPermissions ==
    {CliFullAccess} \cup
    {CliFunctionCall(a, r, m) :
        a \in {NoneV} \cup {Some(x) : x \in Allowances},
        r \in {NoneV} \cup {Some(x) : x \in ReceiverIds},
        m \in {NoneV} \cup {Some(x) : x \in MethodNames}}

\* lines 18-25: CliAddAccessKeyAction
CliAddAccessKeyActions ==
    [public_key : {NoneV} \cup {Some(k) : k \in PublicKeys},
     nonce : {NoneV} \cup {Some(n) : n \in CliNonces},
     permission : {NoneV} \cup {Some(q) : q \in CliPermissions}]

\* lines 33-40 and 126: AccessKeyPermissionDiscriminants::iter(), in declaration order
Variants == <<"FunctionCallAction", "FullAccessAction">>

\* lines 36 and 38: get_message()
Message(v) ==
    IF v = "FunctionCallAction" THEN "A permission with function call"
    ELSE "A permission with full access"

\* lines 127-130: the labels, mapped over variants
Permissions == [i \in DOMAIN Variants |-> Message(Variants[i])]

\* the arms of the match exchanged
ChosenPermissionMut(i) ==
    IF Variants[i + 1] = "FunctionCallAction" THEN CliFullAccess
    ELSE CliFunctionCallDefault

\* lines 137-140: match variants[select_permission]
ChosenPermission(i) ==
    IF Variants[i + 1] = "FunctionCallAction" THEN CliFunctionCallDefault
    ELSE CliFullAccess

\* a default in place of the value given
NonceFromMut(cli_nonce) == 0

\* line 49: Nonce::from(cli_nonce), u64 to u64
NonceFrom(cli_nonce) == cli_nonce

NoCalls == [input_public_key |-> 0, input_nonce |-> 0, choose_permission |-> 0]

\* actions built before this one, which the builder knows nothing of
EarlierActions ==
    {{}, {[public_key |-> [key_type |-> "ED25519", data |-> 1], nonce |-> 5]}}

\* unsigned transactions and server urls handed to process
Transactions == {"tx_a", "tx_b"}
ServerUrls == {NoneV, Some("https://rpc.testnet")}
ProcessorOutcomes == {Ok, Err("processor", "Rpc")}

BuilderStart(item, earlier) ==
    [pc |-> "public_key",
     item |-> item,
     earlier |-> earlier,
     public_key |-> NoneV,
     nonce |-> NoneV,
     cli_permission |-> NoneV,
     calls |-> NoCalls,
     rejected |-> 0,
     keyText |-> NoneV,
     nonceText |-> NoneV,
     ioError |-> "none",
     depth |-> 0,
     menu |-> <<>>,
     select_permission |-> NoneV,
     fieldPrompts |-> {},
     action |-> NoneV,
     given |-> NoneV,
     processCalls |-> <<>>,
     processResult |-> NoResult]

InitBuilder ==
    /\ InitLogin
    /\ macos = FALSE
    /\ h = BlockIdle
    /\ \E item \in CliAddAccessKeyActions, earlier \in EarlierActions :
          b = BuilderStart(item, earlier)

\* lines 44-47: match item.public_key
ResolvePublicKey ==
    /\ b.pc = "public_key"
    /\ IF b.item.public_key.some
       THEN b' = [b EXCEPT !.public_key = Some(b.item.public_key.v), !.pc = "nonce"]
       ELSE b' = [b EXCEPT !.calls.input_public_key = @ + 1, !.pc = "input_public_key"]
    /\ UNCHANGED <<loginVars, h>>

\* the parse error unwrapped
AfterMalformedKeyMut == "panicked"

\* lines 100-105: interact_text asks again while the text does not parse
AfterMalformedKey == "input_public_key"

\* lines 100-105: Input::new().with_prompt(..).interact_text().unwrap()
InputPublicKey ==
    /\ b.pc = "input_public_key"
    /\ \/ \E t \in KeyTexts :
            LET parsed == PublicKeyFromStr(t) IN
            IF parsed.ok
            THEN b' = [b EXCEPT !.keyText = Some(t),
                                !.public_key = Some(parsed.key),
                                !.pc = "nonce"]
            ELSE /\ b.rejected < MaxRejected
                 /\ b' = [b EXCEPT !.keyText = Some(t),
                                   !.rejected = @ + 1,
                                   !.pc = AfterMalformedKey]
       \/ b' = [b EXCEPT !.ioError = "input_public_key", !.pc = "panicked"]
    /\ UNCHANGED <<loginVars, h>>

\* lines 48-51: match item.nonce
ResolveNonce ==
    /\ b.pc = "nonce"
    /\ IF b.item.nonce.some
       THEN b' = [b EXCEPT !.nonce = Some(NonceFrom(b.item.nonce.v)), !.pc = "permission"]
       ELSE b' = [b EXCEPT !.calls.input_nonce = @ + 1, !.pc = "input_nonce"]
    /\ UNCHANGED <<loginVars, h>>

\* a nonce refused unless it is above every earlier one of the same key
NonceAcceptedMut(n) ==
    \A e \in b.earlier : e.public_key = b.public_key.v => n > e.nonce

\* lines 94-99: the Input has no validator, every u64 is taken
NonceAccepted(n) == TRUE

\* lines 94-99: Input::new().with_prompt(..).interact_text().unwrap()
InputNonce ==
    /\ b.pc = "input_nonce"
    /\ \/ \E t \in NonceTexts :
            LET parsed == ParseU64(t) IN
            IF parsed.ok /\ NonceAccepted(parsed.value)
            THEN b' = [b EXCEPT !.nonceText = Some(t),
                                !.nonce = Some(parsed.value),
                                !.pc = "permission"]
            ELSE /\ b.rejected < MaxRejected
                 /\ b' = [b EXCEPT !.nonceText = Some(t),
                                   !.rejected = @ + 1]
       \/ b' = [b EXCEPT !.ioError = "input_nonce", !.pc = "panicked"]
    /\ UNCHANGED <<loginVars, h>>

\* lines 52-55: match item.permission
ResolvePermission ==
    /\ b.pc = "permission"
    /\ IF b.item.permission.some
       THEN b' = [b EXCEPT !.cli_permission = Some(b.item.permission.v), !.pc = "from_cli_permission"]
       ELSE b' = [b EXCEPT !.calls.choose_permission = @ + 1,
                           !.depth = 1,
                           !.pc = "choose_permission"]
    /\ UNCHANGED <<loginVars, h>>

\* lines 125-141: the Select over the labels, .default(0).interact().unwrap()
ChoosePermission ==
    /\ b.pc = "choose_permission"
    /\ \/ \E i \in 0 .. (Len(Permissions) - 1) :
            b' = [b EXCEPT !.menu = Permissions,
                           !.select_permission = Some(i),
                           !.cli_permission = Some(ChosenPermission(i)),
                           !.pc = "from_cli_permission"]
       \/ b' = [b EXCEPT !.menu = Permissions,
                         !.ioError = "choose_permission",
                         !.pc = "panicked"]
    /\ UNCHANGED <<loginVars, h>>

\* FullAccessType::from(CliFullAccessType): the variant has no payload
FullAccessTypeFrom == [variant |-> "FullAccessAction"]

\* FunctionCallType::from(CliFunctionCallType): each field is the one given,
\* or else the answer to its prompt
FunctionCallTypeFrom(cli, answers) ==
    [variant |-> "FunctionCallAction",
     allowance |-> IF cli.allowance.some THEN cli.allowance.v ELSE answers.allowance,
     receiver_id |-> IF cli.receiver_id.some THEN cli.receiver_id.v ELSE answers.receiver_id,
     method_names |-> IF cli.method_names.some THEN cli.method_names.v ELSE answers.method_names]

\* the fields of a CliFunctionCallType that are None
AbsentFields(cli) ==
    {f \in {"allowance", "receiver_id", "method_names"} : ~cli[f].some}

\* the variant kept and its payload never resolved
PermissionFromMut(cli, answers) == [variant |-> cli.variant]

\* lines 108-122: From<CliAccessKeyPermission> for AccessKeyPermission
PermissionFrom(cli, answers) ==
    IF cli.variant = "FunctionCallAction"
    THEN FunctionCallTypeFrom(cli, answers)
    ELSE FullAccessTypeFrom

\* lines 56-60 and 108-122: AccessKeyPermission::from(cli_permission) and the struct
FromCliPermission ==
    /\ b.pc = "from_cli_permission"
    /\ LET cli == b.cli_permission.v IN
       \E answers \in [allowance : Allowances, receiver_id : ReceiverIds,
                       method_names : MethodNames] :
          b' = [b EXCEPT !.fieldPrompts = IF cli.variant = "FunctionCallAction"
                                          THEN AbsentFields(cli) ELSE {},
                         !.depth = 2,
                         !.action = Some([public_key |-> b.public_key.v,
                                          nonce |-> b.nonce.v,
                                          permission |-> PermissionFrom(cli, answers)]),
                         !.pc = "done"]
    /\ UNCHANGED <<loginVars, h>>

\* the arms of the match exchanged
ProcessorForMut(permission) ==
    IF permission.variant = "FullAccessAction" THEN "function_call_type"
    ELSE "full_access_type"

\* lines 71-92: match self.permission
ProcessorFor(permission) ==
    IF permission.variant = "FullAccessAction" THEN "full_access_type"
    ELSE "function_call_type"

\* lines 64-93: AddAccessKeyAction::process
Process ==
    /\ b.pc = "done"
    /\ \E tx \in Transactions, server \in ServerUrls, out \in ProcessorOutcomes :
          b' = [b EXCEPT !.given = Some([prepopulated_unsigned_transaction |-> tx,
                                         selected_server_url |-> server]),
                         !.processCalls =
                             Append(@, [processor |-> ProcessorFor(b.action.v.permission),
                                        payload |-> b.action.v.permission,
                                        nonce |-> b.action.v.nonce,
                                        prepopulated_unsigned_transaction |-> tx,
                                        selected_server_url |-> server,
                                        public_key |-> b.action.v.public_key,
                                        outcome |-> out]),
                         !.processResult = out,
                         !.pc = "processed"]
    /\ UNCHANGED <<loginVars, h>>

NextBuilder ==
    \/ ResolvePublicKey
    \/ InputPublicKey
    \/ ResolveNonce
    \/ InputNonce
    \/ ResolvePermission
    \/ ChoosePermission
    \/ FromCliPermission
    \/ Process

SpecBuilder == InitBuilder /\ [][NextBuilder]_vars

\* a prompt that is answered and a call that is made do get their turn
SpecBuilderFair == SpecBuilder /\ WF_vars(NextBuilder)

(***************************************************************************)
(* BlockIdHeight (block_id_height/mod.rs)                                  *)
(***************************************************************************)
\* most conversions of a BlockIdHeight back into a CliBlockIdHeight
MaxRoundTrips == 1

BlockHeights == {0, 7, 42, 100}
\* what the user may type at the block-height prompt
HeightTexts == {<<"7">>, <<"1", "0", "0">>, <<"x">>}

\* line 18: u64::to_string, the decimal digits
RECURSIVE to_string(_)
to_string(n) ==
    IF n < 10 THEN <<Digits[n + 1]>>
    ELSE to_string(n \div 10) \o <<Digits[(n % 10) + 1]>>

\* lines 15-21: CliBlockIdHeight::to_cli_args
ToCliArgs(item) ==
    IF item.block_id_height.some
    THEN <<to_string(item.block_id_height.v)>>
    ELSE <<>>

\* Default::default() in place of the height
CliFromBlockIdHeightMut(block_id_height) == [block_id_height |-> NoneV]

\* lines 24-30: From<BlockIdHeight> for CliBlockIdHeight
CliFromBlockIdHeight(block_id_height) == [block_id_height |-> Some(block_id_height)]

\* lines 4-7: CliBlockIdHeight
CliBlockIdHeights ==
    {[block_id_height |-> NoneV]} \cup {[block_id_height |-> Some(n)] : n \in BlockHeights}

\* crate::common::ConnectionConfig: the two endpoints of the network
ConnectionConfig ==
    [rpc_url |-> "https://rpc.testnet", archival_rpc_url |-> "https://archival-rpc.testnet"]

BlockStart(item, account) ==
    [pc |-> "from",
     item |-> item,
     block_id_height |-> NoneV,
     prompts |-> 0,
     rejected |-> 0,
     ioError |-> "none",
     roundTrips |-> 0,
     before |-> NoneV,
     args |-> NoneV,
     account_id |-> account,
     network_connection_config |-> ConnectionConfig,
     queries |-> <<>>,
     printed |-> <<>>,
     result |-> NoResult]

InitBlock ==
    /\ InitLogin
    /\ macos = FALSE
    /\ b = BuilderIdle
    /\ \E item \in CliBlockIdHeights, account \in Accounts : h = BlockStart(item, account)

\* lines 15-21, on the CliBlockIdHeight at hand
CallToCliArgs ==
    /\ h.pc = "from"
    /\ ~h.args.some
    /\ h' = [h EXCEPT !.args = Some(ToCliArgs(h.item))]
    /\ UNCHANGED <<loginVars, b>>

\* lines 32-40: From<CliBlockIdHeight> for BlockIdHeight
FromCliBlockIdHeight ==
    /\ h.pc = "from"
    /\ IF h.item.block_id_height.some
       THEN h' = [h EXCEPT !.block_id_height = Some(h.item.block_id_height.v),
                           !.pc = "resolved"]
       ELSE h' = [h EXCEPT !.prompts = @ + 1, !.pc = "input_block_id_height"]
    /\ UNCHANGED <<loginVars, b>>

\* lines 43-48: Input::new().with_prompt(..).interact_text().unwrap()
InputBlockIdHeight ==
    /\ h.pc = "input_block_id_height"
    /\ \/ \E t \in HeightTexts :
            LET parsed == ParseU64(t) IN
            IF parsed.ok
            THEN h' = [h EXCEPT !.block_id_height = Some(parsed.value), !.pc = "resolved"]
            ELSE /\ h.rejected < MaxRejected
                 /\ h' = [h EXCEPT !.rejected = @ + 1]
       \/ h' = [h EXCEPT !.ioError = "input_block_id_height", !.pc = "panicked"]
    /\ UNCHANGED <<loginVars, b>>

\* lines 24-30: the BlockIdHeight turned back into its partial form
IntoCliBlockIdHeight ==
    /\ h.pc = "resolved"
    /\ h.roundTrips < MaxRoundTrips
    /\ h' = [h EXCEPT !.before = Some([block_id_height |-> h.block_id_height.v,
                                       prompts |-> h.prompts]),
                      !.item = CliFromBlockIdHeight(h.block_id_height.v),
                      !.block_id_height = NoneV,
                      !.args = NoneV,
                      !.roundTrips = @ + 1,
                      !.pc = "from"]
    /\ UNCHANGED <<loginVars, b>>

\* lines 72 and 126: network_connection_config.archival_rpc_url()
QueryUrl(config) == config.archival_rpc_url

\* the query's block reference and account, lines 73-80 and 127-134
Query(request, outcome) ==
    [url |-> QueryUrl(h.network_connection_config),
     block_height |-> h.block_id_height.v,
     request |-> request,
     account_id |-> h.account_id,
     outcome |-> outcome]

\* the error of the first step dropped
AfterAccountInfoErrorMut == "access_key_list"

\* lines 59-60: the `?` after display_account_info(..).await
AfterAccountInfoError == "returned"

\* lines 59-60 and 66-118: display_account_info
DisplayAccountInfo ==
    /\ h.pc = "resolved"
    /\ \E out \in {"ViewAccount", "AccessKeyList", "Transport"} :
          h' = [h EXCEPT
                  !.queries = Append(@, Query("ViewAccount", out)),
                  !.printed = IF out = "ViewAccount" THEN Append(@, "account details") ELSE @,
                  !.result = IF out = "Transport"
                             THEN Err("Failed to fetch query for view account", "Transport")
                             ELSE IF out = "ViewAccount" THEN @
                             ELSE Err("Error call result", "kind"),
                  !.pc = IF out = "ViewAccount" THEN "access_key_list"
                         ELSE AfterAccountInfoError]
    /\ UNCHANGED <<loginVars, b>>

\* lines 61-63 and 120-184: display_access_key_list, Ok(())
DisplayAccessKeyList ==
    /\ h.pc = "access_key_list"
    /\ \E out \in {"ViewAccount", "AccessKeyList", "Transport"} :
          h' = [h EXCEPT
                  !.queries = Append(@, Query("ViewAccessKeyList", out)),
                  !.printed = IF out = "AccessKeyList" THEN Append(@, "access keys") ELSE @,
                  !.result = IF out = "Transport"
                             THEN Err("Failed to fetch query for view key list", "Transport")
                             ELSE IF out = "AccessKeyList"
                             THEN (IF @ = NoResult THEN Ok ELSE @)
                             ELSE Err("Error call result", "kind"),
                  !.pc = "returned"]
    /\ UNCHANGED <<loginVars, b>>

NextBlock ==
    \/ CallToCliArgs
    \/ FromCliBlockIdHeight
    \/ InputBlockIdHeight
    \/ IntoCliBlockIdHeight
    \/ DisplayAccountInfo
    \/ DisplayAccessKeyList

SpecBlock == InitBlock /\ [][NextBlock]_vars

(***************************************************************************)
(* Properties of the login flow                                            *)
(***************************************************************************)
PreDecision == {"Start", "KeyGenerated", "UrlPrinted", "UrlPresented",
                "AwaitingAccountId", "Verifying", "NotVerifiedPrompt"}
SaveStates == {"SaveAccessKey", "SelectKeychain", "WriteMacos", "WriteLegacy",
               "Persisted", "Aborted"}
SaveAborts == {"select_keychain", "macos_keychain", "legacy_keychain"}

SavedAnyway == selects # <<>> /\ Last(selects) = "No"
Verified == verifyCalls # <<>> /\ Last(verifyCalls).outcome = "Ok"

\* C1: after a failed verification and the answer "No, I want to save the access
\* key information", the flow goes on to save_access_key with the account id
\* entered in that same iteration (the last one entered, the one the failed
\* verify call got); it aborts only inside save_access_key, and a successful
\* write ends the flow in Persisted with Ok.
C1_SaveAnywayKeepsEnteredAccount ==
    SavedAnyway =>
        /\ pc \in SaveStates
        /\ Last(verifyCalls).outcome # "Ok"
        /\ account_id = Last(entered)
        /\ account_id = Last(verifyCalls).account_id
        /\ (saveCalls = 0 => pc = "SaveAccessKey")
        /\ (pc = "Aborted" => abortAt \in SaveAborts)
        /\ \A i \in DOMAIN writeLog :
              /\ writeLog[i].account_id = Last(entered)
              /\ (writeLog[i].outcome = "ok" => pc = "Persisted" /\ result = Ok)

C1_Witness ==
    /\ pc = "Persisted"
    /\ Len(entered) = 2
    /\ entered[1] # entered[2]
    /\ verifyCalls[2].outcome = "NotFound"
    /\ Last(selects) = "No"
    /\ Last(writeLog).account_id = entered[2]

\* C2: save_access_key is called at most once and a backend write is attempted
\* at most once, only after the last verify call succeeded or the user answered
\* "No" after a failed one; before that decision nothing is written, and a
\* failed write ends the flow instead of being tried again.
C2_PersistOnceAfterDecision ==
    /\ saveCalls <= 1
    /\ Len(writeLog) <= 1
    /\ (saveCalls > 0 \/ writeLog # <<>>) =>
          \/ Verified
          \/ /\ SavedAnyway
             /\ Len(selects) = Len(verifyCalls)
             /\ Last(verifyCalls).outcome # "Ok"
    /\ pc \in PreDecision =>
          /\ saveCalls = 0
          /\ writeLog = <<>>
          /\ ~messagePrinted
          /\ (run = 1 => fileStore = EmptyStore /\ macosStore = EmptyStore)
    /\ \A i \in DOMAIN writeLog : writeLog[i].outcome # "ok" => pc = "Aborted"

C2_Witness ==
    /\ pc = "Aborted"
    /\ abortAt = "legacy_keychain"
    /\ Len(writeLog) = 1
    /\ writeLog[1].outcome = "DiskFull"
    /\ SavedAnyway

\* C3: NotFound and Transport alike lead to the two-choice prompt and never to
\* another verify call by themselves: the i-th verify call is for the i-th
\* account id entered, every verify call but the last failed and was answered
\* "Yes", and the number of verify calls equals the number of account ids entered
\* (one less only while the call for the newest entry is about to be made).
C3_NoAutoRetry ==
    /\ Len(verifyCalls) = (IF pc = "Verifying" THEN Len(entered) - 1 ELSE Len(entered))
    /\ Len(selects) <= Len(verifyCalls)
    /\ \A i \in DOMAIN verifyCalls :
          /\ verifyCalls[i].account_id = entered[i]
          /\ (i < Len(entered) =>
                /\ verifyCalls[i].outcome \in {"NotFound", "Transport"}
                /\ i \in DOMAIN selects
                /\ selects[i] = "Yes")
          /\ (verifyCalls[i].outcome \in {"NotFound", "Transport"} =>
                \/ i \in DOMAIN selects
                \/ /\ i = Len(verifyCalls)
                   /\ \/ pc = "NotVerifiedPrompt"
                      \/ pc = "Aborted" /\ abortAt = "select_confirm")
    /\ (pc = "NotVerifiedPrompt" =>
          /\ verifyCalls # <<>>
          /\ Last(verifyCalls).outcome \in {"NotFound", "Transport"}
          /\ Len(selects) = Len(verifyCalls) - 1)

C3_Witness ==
    /\ pc = "NotVerifiedPrompt"
    /\ Len(verifyCalls) = 2
    /\ verifyCalls[1].outcome = "Transport"
    /\ verifyCalls[2].outcome = "NotFound"
    /\ selects = <<"Yes">>

\* C4: a verify call that succeeds is the last one of the flow: the flow is in
\* save_access_key (or past it) with the account id of that call, no answer to
\* the re-enter prompt and no account id follow it.
C4_VerifiedGoesToPersist ==
    \A i \in DOMAIN verifyCalls :
        verifyCalls[i].outcome = "Ok" =>
            /\ i = Len(verifyCalls)
            /\ Len(entered) = i
            /\ Len(selects) = i - 1
            /\ pc \in SaveStates
            /\ (pc = "Aborted" => abortAt \in SaveAborts)
            /\ account_id = verifyCalls[i].account_id
            /\ \A j \in DOMAIN writeLog : writeLog[j].account_id = verifyCalls[i].account_id

C4_Witness ==
    /\ pc = "Persisted"
    /\ Len(verifyCalls) = 2
    /\ verifyCalls[2].outcome = "Ok"
    /\ entered[1] # entered[2]
    /\ writeLog[1].account_id = entered[2]

\* C5: a prompt that ends with an i/o error ends the flow in Aborted with that
\* error returned and nothing written (for the account-id prompt and the
\* re-enter selection, save_access_key is never called); a failed backend write
\* ends the flow in Aborted with an error returned.
C5_IoErrorAborts ==
    /\ promptErrors # <<>> =>
          /\ Len(promptErrors) = 1
          /\ pc = "Aborted"
          /\ abortAt = promptErrors[1]
          /\ result = Err(promptErrors[1], IoError)
          /\ writeLog = <<>>
          /\ ~messagePrinted
          /\ (run = 1 => fileStore = EmptyStore /\ macosStore = EmptyStore)
          /\ (promptErrors[1] \in {"input_account_id", "select_confirm"} => saveCalls = 0)
    /\ \A i \in DOMAIN writeLog :
          writeLog[i].outcome # "ok" =>
              /\ pc = "Aborted"
              /\ result.kind = "Err"

C5_Witness ==
    /\ pc = "Aborted"
    /\ promptErrors = <<"input_account_id">>
    /\ Len(entered) = 1
    /\ selects = <<"Yes">>

\* C6: the url is printed before the browser is tried, and the outcome of
\* open::that never ends the flow: once it was tried, opened or failed, the flow
\* is at the account-id prompt or past it, and aborts only at a prompt or in
\* save_access_key.
C6_OpenFailureNotFatal ==
    /\ (openOutcome # None =>
          /\ urlPrinted
          /\ pc \notin {"Start", "KeyGenerated", "UrlPrinted"}
          /\ (pc = "Aborted" =>
                abortAt \in {"input_account_id", "select_confirm"} \cup SaveAborts))
    /\ (pc \in {"AwaitingAccountId", "Verifying", "NotVerifiedPrompt"} \cup (SaveStates \ {"Aborted"}) =>
          /\ urlPrinted
          /\ openOutcome \in {"opened", "failed"})
    /\ (entered # <<>> \/ promptErrors # <<>> => urlPrinted /\ openOutcome # None)

C6_Witness ==
    /\ openOutcome = "failed"
    /\ pc = "Persisted"
    /\ urlPrinted

\* C7: in a macos build the keychain Select is shown once and the one backend
\* the answer names is the only one written; in any other build no Select is
\* shown and only the legacy (file) keychain is written.
C7_OneBackend ==
    /\ Len(writeLog) <= 1
    /\ keychainPrompts <= 1
    /\ (~macos =>
          /\ keychainPrompts = 0
          /\ selection = None
          /\ macosStore = EmptyStore
          /\ \A i \in DOMAIN writeLog : writeLog[i].backend = "legacy")
    /\ (macos =>
          /\ (pc \in {"WriteMacos", "WriteLegacy", "Persisted"} => keychainPrompts = 1)
          /\ \A i \in DOMAIN writeLog :
                /\ keychainPrompts = 1
                /\ selection \in {macos_keychain, legacy_keychain}
                /\ writeLog[i].backend =
                      (IF selection = macos_keychain THEN "macos" ELSE "legacy"))
    /\ (run = 1 /\ selection = macos_keychain => fileStore = EmptyStore)
    /\ (run = 1 /\ selection = legacy_keychain => macosStore = EmptyStore)

C7_Witness ==
    /\ macos
    /\ pc = "Persisted"
    /\ selection = macos_keychain
    /\ writeLog[1].backend = "macos"
    /\ macosStore[account_id] # NoRecord
    /\ fileStore = EmptyStore

\* C8: a failed backend write is returned as an error that carries the
\* backend's cause, without the confirmation message, and login returns Ok only
\* after a write that succeeded.
C8_StoreFailureSurfaced ==
    /\ \A i \in DOMAIN writeLog :
          writeLog[i].outcome # "ok" =>
              /\ result.kind = "Err"
              /\ result.cause = writeLog[i].outcome
              /\ ~messagePrinted
    /\ (result = Ok =>
          /\ writeLog # <<>>
          /\ Last(writeLog).outcome = "ok"
          /\ messagePrinted)

C8_Witness ==
    /\ pc = "Aborted"
    /\ abortAt = "macos_keychain"
    /\ writeLog[1].outcome = "PermissionDenied"
    /\ result = Err("Failed to save the access key to the keychain", "PermissionDenied")

\* C14: a login that reaches Persisted leaves, in the backend it wrote, the one
\* record of the account holding the key pair of that login, whether or not a
\* record with another key pair was there before: the write is made without
\* looking for an existing record, and succeeds over one.
C14_LastWriteWins ==
    \A i \in DOMAIN writeLog :
        writeLog[i].outcome = "ok" =>
            LET store == IF writeLog[i].backend = "macos" THEN macosStore ELSE fileStore
                a == writeLog[i].account_id
            IN  /\ pc = "Persisted"
                /\ result = Ok
                /\ a = account_id
                /\ store[a] = [account_id |-> a,
                               public_key |-> key_pair_properties.public_key_str,
                               private_key |-> key_pair_properties.secret_keypair_str]

C14_Witness ==
    /\ run = 2
    /\ pc = "Persisted"
    /\ result = Ok
    /\ writeLog[1].backend = "legacy"
    /\ writeLog[1].previous # NoRecord
    /\ writeLog[1].previous.account_id = account_id
    /\ writeLog[1].previous.public_key # key_pair_properties.public_key_str
    /\ fileStore[account_id].public_key = key_pair_properties.public_key_str

\* C18: generate_keypair, the url and open::that each happen once in a login,
\* before the first account-id prompt, however often the account id is
\* re-entered; the key in the url, the key of every verify call and the key of
\* the pair handed to the backend are the one generated key.
C18_KeyGeneratedOnce ==
    /\ stepCalls.generate_keypair <= 1
    /\ stepCalls.url <= 1
    /\ stepCalls.open <= 1
    /\ (pc \in {"AwaitingAccountId", "Verifying", "NotVerifiedPrompt"} \cup (SaveStates \ {"Aborted"}) =>
          stepCalls = [generate_keypair |-> 1, url |-> 1, open |-> 1])
    /\ (entered # <<>> \/ promptErrors # <<>> =>
          stepCalls = [generate_keypair |-> 1, url |-> 1, open |-> 1])
    /\ (stepCalls.url = 1 /\ abortAt # "join" =>
          url.public_key = key_pair_properties.public_key_str)
    /\ \A i \in DOMAIN verifyCalls :
          /\ PublicKeyToStr(verifyCalls[i].public_key) = url.public_key
          /\ verifyCalls[i].public_key = verifyCalls[1].public_key
    /\ \A i \in DOMAIN writeLog :
          /\ writeLog[i].key = key_pair_properties
          /\ writeLog[i].key.public_key_str = url.public_key

C18_Witness ==
    /\ pc = "Persisted"
    /\ Len(entered) = 3
    /\ selects = <<"Yes", "Yes">>
    /\ stepCalls.generate_keypair = 1
    /\ Len(verifyCalls) = 3
    /\ writeLog[1].key.public_key_str = url.public_key

(***************************************************************************)
(* Properties of the builder                                               *)
(***************************************************************************)
FunctionCallFields == {"allowance", "receiver_id", "method_names"}

\* C9: each field given in the CliAddAccessKeyAction is never prompted for and
\* is in the action unchanged, and each field not given is prompted for once;
\* with all three given there is no public-key prompt, no nonce prompt and no
\* permission menu.
C9_PerFieldResolution ==
    /\ (b.item.public_key.some => b.calls.input_public_key = 0)
    /\ (b.item.nonce.some => b.calls.input_nonce = 0)
    /\ (b.item.permission.some => b.calls.choose_permission = 0 /\ b.menu = <<>>)
    /\ (b.pc = "done" =>
          LET a == b.action.v
              item == b.item
          IN  /\ (item.public_key.some => a.public_key = item.public_key.v)
              /\ (~item.public_key.some => b.calls.input_public_key = 1)
              /\ (item.nonce.some => a.nonce = item.nonce.v)
              /\ (~item.nonce.some => b.calls.input_nonce = 1)
              /\ (~item.permission.some => b.calls.choose_permission = 1 /\ b.menu # <<>>)
              /\ (item.permission.some =>
                    /\ a.permission.variant = item.permission.v.variant
                    /\ (a.permission.variant = "FunctionCallAction" =>
                          \A f \in FunctionCallFields :
                              /\ (item.permission.v[f].some =>
                                    /\ a.permission[f] = item.permission.v[f].v
                                    /\ f \notin b.fieldPrompts)
                              /\ (~item.permission.v[f].some => f \in b.fieldPrompts))))

C9_Witness ==
    /\ b.pc = "done"
    /\ b.item = [public_key |-> Some([key_type |-> "ED25519", data |-> 1]),
                 nonce |-> Some(5),
                 permission |-> Some(CliFullAccess)]
    /\ b.action.v = [public_key |-> [key_type |-> "ED25519", data |-> 1],
                     nonce |-> 5,
                     permission |-> [variant |-> "FullAccessAction"]]
    /\ b.calls = NoCalls
    /\ b.menu = <<>>

\* C10: with no permission given the menu shows the labels in the declared
\* order (function call first, full access second), the permission chosen is the
\* variant whose label stands at the selected index, with none of its fields
\* given, and that is the variant of the action; with a permission given no menu
\* is shown and the action has the given variant.
C10_MenuFollowsDeclaredOrder ==
    /\ (b.menu # <<>> =>
          /\ ~b.item.permission.some
          /\ b.menu = <<"A permission with function call", "A permission with full access">>)
    /\ (b.select_permission.some =>
          LET label == b.menu[b.select_permission.v + 1]
              chosen == b.cli_permission.v
          IN  /\ Message(chosen.variant) = label
              /\ chosen.variant = Variants[b.select_permission.v + 1]
              /\ (chosen.variant = "FunctionCallAction" =>
                    \A f \in FunctionCallFields : ~chosen[f].some)
              /\ (b.pc = "done" =>
                    /\ Message(b.action.v.permission.variant) = label
                    /\ (chosen.variant = "FunctionCallAction" =>
                          b.fieldPrompts = FunctionCallFields)))
    /\ (b.item.permission.some =>
          /\ b.menu = <<>>
          /\ ~b.select_permission.some
          /\ (b.pc = "done" =>
                b.action.v.permission.variant = b.item.permission.v.variant))

C10_Witness ==
    /\ b.pc = "done"
    /\ ~b.item.permission.some
    /\ b.select_permission = Some(1)
    /\ b.menu[2] = "A permission with full access"
    /\ b.action.v.permission = [variant |-> "FullAccessAction"]

\* every field of the permission's variant holds a value of its type
FullyPopulated(perm) ==
    /\ perm.variant \in {"FunctionCallAction", "FullAccessAction"}
    /\ (perm.variant = "FullAccessAction" => DOMAIN perm = {"variant"})
    /\ (perm.variant = "FunctionCallAction" =>
          /\ DOMAIN perm = {"variant"} \cup FunctionCallFields
          /\ perm.allowance \in Allowances
          /\ perm.receiver_id \in ReceiverIds
          /\ perm.method_names \in MethodNames)

PermissionResolved ==
    /\ b.depth <= 2
    /\ (b.pc \in {"done", "processed"} => b.action.some)
    /\ (b.action.some => FullyPopulated(b.action.v.permission))

C12_MalformedKeyReprompts ==
    /\ (b.keyText.some =>
          LET parsed == PublicKeyFromStr(b.keyText.v) IN
          /\ (~parsed.ok =>
                /\ ~b.public_key.some
                /\ \/ b.pc = "input_public_key"
                   \/ b.pc = "panicked" /\ b.ioError = "input_public_key")
          /\ (parsed.ok => b.public_key = Some(parsed.key)))
    /\ (b.pc = "panicked" => b.ioError # "none")
    /\ (b.action.some => b.action.v.public_key \in PublicKeys)

C12_Witness ==
    /\ b.pc = "done"
    /\ b.item.nonce.some
    /\ b.calls.input_public_key = 1
    /\ b.rejected = 2
    /\ b.keyText = Some(<<"ed25519", 2>>)
    /\ b.action.v.public_key = [key_type |-> "ED25519", data |-> 2]

\* C13: a prompt of a builder that ends with an i/o error is returned to the
\* caller as an error and does not end the process.
C13_PromptFailurePropagates ==
    b.ioError # "none" => b.pc # "panicked"

\* C15: the nonce of the action is the nonce given, or the value of the text
\* typed at the prompt, whatever it is: a text that is a u64 is taken at once,
\* also when an earlier action of the same public key has that nonce or a
\* higher one.
C15_AnyNonceAccepted ==
    /\ (b.nonceText.some =>
          IF ParseU64(b.nonceText.v).ok
          THEN b.nonce = Some(DecimalValue(b.nonceText.v))
          ELSE ~b.nonce.some)
    /\ (b.action.some =>
          IF b.item.nonce.some
          THEN b.action.v.nonce = b.item.nonce.v
          ELSE /\ b.nonceText.some
               /\ b.action.v.nonce = DecimalValue(b.nonceText.v))

C15_Witness ==
    /\ b.pc = "done"
    /\ ~b.item.nonce.some
    /\ b.nonceText = Some(<<"5">>)
    /\ b.action.v.nonce = 5
    /\ \E e \in b.earlier :
          /\ e.public_key = b.action.v.public_key
          /\ e.nonce >= b.action.v.nonce

\* C16: process calls one processor, the one of the action's permission
\* variant, with the action's nonce and public key and the transaction and
\* server url it was given, and returns what that processor returned.
C16_ProcessDispatch ==
    /\ Len(b.processCalls) <= 1
    /\ (b.pc = "processed" <=> Len(b.processCalls) = 1)
    /\ \A i \in DOMAIN b.processCalls :
          LET c == b.processCalls[i]
              a == b.action.v
          IN  /\ c.processor = (IF a.permission.variant = "FullAccessAction"
                                THEN "full_access_type" ELSE "function_call_type")
              /\ c.payload = a.permission
              /\ c.nonce = a.nonce
              /\ c.public_key = a.public_key
              /\ c.prepopulated_unsigned_transaction = b.given.v.prepopulated_unsigned_transaction
              /\ c.selected_server_url = b.given.v.selected_server_url
              /\ b.processResult = c.outcome

C16_Witness ==
    /\ b.pc = "processed"
    /\ b.action.v.permission.variant = "FunctionCallAction"
    /\ b.processCalls[1].processor = "function_call_type"
    /\ b.processCalls[1].selected_server_url = Some("https://rpc.testnet")
    /\ b.processResult = Err("processor", "Rpc")

(***************************************************************************)
(* Properties of BlockIdHeight                                             *)
(***************************************************************************)
\* C17: process queries view-account first and view-access-key-list second,
\* both at the archival endpoint, for the same account and at the height of the
\* BlockIdHeight; if the first step fails the second query is never made; a
\* transport failure is returned with a message that names the query; Ok is
\* returned only after both steps succeeded.
C17_QueriesInOrder ==
    /\ Len(h.queries) <= 2
    /\ \A i \in DOMAIN h.queries :
          LET q == h.queries[i] IN
          /\ q.request = (IF i = 1 THEN "ViewAccount" ELSE "ViewAccessKeyList")
          /\ q.url = h.network_connection_config.archival_rpc_url
          /\ q.account_id = h.account_id
          /\ q.block_height = h.block_id_height.v
          /\ (q.outcome = "Transport" =>
                /\ h.pc = "returned"
                /\ i = Len(h.queries)
                /\ h.result = Err((IF i = 1 THEN "Failed to fetch query for view account"
                                   ELSE "Failed to fetch query for view key list"),
                                  "Transport"))
    /\ (Len(h.queries) >= 1 /\ h.queries[1].outcome # "ViewAccount" =>
          /\ Len(h.queries) = 1
          /\ h.pc = "returned"
          /\ h.result.kind = "Err"
          /\ h.printed = <<>>)
    /\ (h.result = Ok =>
          /\ Len(h.queries) = 2
          /\ h.queries[1].outcome = "ViewAccount"
          /\ h.queries[2].outcome = "AccessKeyList"
          /\ h.printed = <<"account details", "access keys">>)
    /\ (h.pc = "returned" => h.result.kind \in {"Ok", "Err"})

C17_Witness ==
    /\ h.pc = "returned"
    /\ Len(h.queries) = 1
    /\ h.queries[1].outcome = "Transport"
    /\ h.queries[1].block_height = 42
    /\ h.result = Err("Failed to fetch query for view account", "Transport")

\* C19: a BlockIdHeight turned into a CliBlockIdHeight has its height present,
\* and turned back it is the same height with no prompt; to_cli_args of a
\* CliBlockIdHeight is the height's decimal digits alone, and empty when the
\* height is absent.
C19_RoundTrip ==
    /\ (h.roundTrips >= 1 =>
          /\ h.item = [block_id_height |-> Some(h.before.v.block_id_height)]
          /\ h.prompts = h.before.v.prompts
          /\ h.pc \in {"from", "resolved", "access_key_list", "returned"}
          /\ (h.pc # "from" => h.block_id_height = Some(h.before.v.block_id_height)))
    /\ (h.args.some =>
          IF h.item.block_id_height.some
          THEN /\ Len(h.args.v) = 1
               /\ ParseU64(h.args.v[1]).ok
               /\ DecimalValue(h.args.v[1]) = h.item.block_id_height.v
               /\ (Len(h.args.v[1]) > 1 => h.args.v[1][1] # "0")
          ELSE h.args.v = <<>>)

C19_Witness ==
    /\ h.roundTrips = 1
    /\ h.pc = "resolved"
    /\ h.before.v.block_id_height = 100
    /\ h.block_id_height = Some(100)
    /\ h.prompts = 1
    /\ h.args = Some(<< <<"1", "0", "0">> >>)

====
